---- MODULE Spec2Model ----
(***************************************************************************)
(* voice2action.py: record a spoken command, have Gemini transcribe it,    *)
(* have Gemini return automation code, extract the fenced block, scan it   *)
(* against a denylist and exec it with autopy/keyboard/time in scope.      *)
(*                                                                         *)
(* Text is modelled by TLA+ strings, on which Len, SubSeq and \o act       *)
(* character by character.  A TLA+ string literal cannot hold a backquote, *)
(* so the backquote character of the source is written ~ throughout; no    *)
(* other character of the model is a ~.                                    *)
(***************************************************************************)
EXTENDS Integers, Sequences, FiniteSets, TLC

VARIABLES
    pc,          \* position of main(): the pipeline stage in progress
    history,     \* stages entered before the current one, oldest first
    failedAt,    \* stage in which an exception was raised ("" = none)
    cause,       \* message of the raised exception ("" = none)
    hostAlive,   \* FALSE once an uncaught exception has left main()
    transcript,  \* main's local `transcript`
    raw,         \* request_code_from_gemini's local `raw`
    code,        \* main's local `code`
    scanned,     \* the text is_code_safe was called on
    verdict,     \* (safe, msg) returned by is_code_safe
    g,           \* names bound in the globals dict handed to exec
    full_code,   \* run_generated_code's local `full_code`
    executed,    \* TRUE once exec(full_code, g, None) has been entered
    ip,          \* index of the next statement of the script exec runs
    deviceLog,   \* device-control primitives invoked so far, in order
    effects,     \* non-device capabilities the script has exercised
    result,      \* what run_generated_code handed back to main
    catalog,     \* the list object UI_ELEMENTS, shared with the script
    spin,        \* inside a loop statement: TRUE while its body runs
    tmpfiles,    \* paths of the temporary directory that exist on disk
    peer,        \* a second run on the same host, inside run_generated_code
    bbox,        \* bbox_to_center's argument b
    screen,      \* (SCREEN_WIDTH, SCREEN_HEIGHT)
    center       \* what bbox_to_center returned

vars == <<pc, history, failedAt, cause, hostAlive, transcript, raw, code,
          scanned, verdict, g, full_code, executed, ip, deviceLog, effects,
          result, catalog, spin, tmpfiles, peer, bbox, screen, center>>

\* The variables of a call of bbox_to_center.
mapperVars == <<bbox, screen, center>>

\* Largest number of parts a model response is put together from.
MaxParts == 2

----------------------------------------------------------------------------
(* Text primitives of Python used by the program.                          *)

\* The backquote character.
BQ == "~"

\* str.strip() and the regex class \s: the whitespace characters.
IsSpace(c) == c \in {" ", "\n", "\t"}

CharAt(s, i) == SubSeq(s, i, i)

\* str.strip(): drop leading and trailing whitespace.
strip(s) ==
    LET keep == {i \in 1..Len(s) : ~IsSpace(CharAt(s, i))}
    IN  IF keep = {} THEN ""
        ELSE SubSeq(s, CHOOSE i \in keep : \A j \in keep : i <= j,
                       CHOOSE i \in keep : \A j \in keep : j <= i)

\* re.IGNORECASE on the letters of the tag: one character, lower-cased.
LowerChar(c) ==
    CASE c = "P" -> "p" [] c = "Y" -> "y" [] c = "T" -> "t"
      [] c = "H" -> "h" [] c = "O" -> "o" [] c = "N" -> "n"
      [] c = "S" -> "s" [] c = "I" -> "i" [] c = "M" -> "m"
      [] c = "R" -> "r" [] OTHER -> c

RECURSIVE Lower(_)
Lower(s) == IF s = "" THEN "" ELSE LowerChar(CharAt(s, 1)) \o Lower(SubSeq(s, 2, Len(s)))

\* The text at position i of s starts with p.
StartsAt(s, i, p) == i >= 1 /\ i + Len(p) - 1 <= Len(s) /\ SubSeq(s, i, i + Len(p) - 1) = p

\* str.startswith: pat occurs in s at position 1.
PyStartsWith(pat, s) == StartsAt(s, 1, pat)

\* Python's `pat in s` on strings: pat occurs in s at some position.
PyIn(pat, s) == \E i \in 1..(Len(s) + 1) : StartsAt(s, i, pat)

----------------------------------------------------------------------------
(* request_code_from_gemini: the search for the fenced block.              *)

\* The literal head and tail of the pattern r"```python\s*(.*?)```".
FenceOpen == BQ \o BQ \o BQ \o "python"
FenceClose == BQ \o BQ \o BQ

\* The tag compared without re.IGNORECASE.
TagMatchesExact(t) == t = FenceOpen

\* re.IGNORECASE: the head of the pattern matches in any letter case.
TagMatches(t) == Lower(t) = FenceOpen

\* `.` without re.DOTALL stops at a newline.
DotNoNewline(c) == c # "\n"

\* re.DOTALL: `.` matches every character, the newline included.
DotMatches(c) == TRUE

\* \s* is greedy: the first position at or after j that holds no whitespace.
RECURSIVE SkipSpace(_, _)
SkipSpace(s, j) ==
    IF j <= Len(s) /\ IsSpace(CharAt(s, j)) THEN SkipSpace(s, j + 1) ELSE j

\* (.*)``` with a greedy body: the last position at or after k where a
\* closing fence starts; 0 if there is none.
GreedyUntilFence(s, k) ==
    LET c == {m \in k..Len(s) : StartsAt(s, m, FenceClose)}
    IN  IF c = {} THEN 0 ELSE CHOOSE m \in c : \A n \in c : n <= m

\* (.*?)``` is lazy: the first position at or after k where the closing
\* fence starts, every character passed over being one `.` matches; 0 if
\* there is none.
RECURSIVE LazyUntilFence(_, _)
LazyUntilFence(s, k) ==
    IF StartsAt(s, k, FenceClose) THEN k
    ELSE IF k > Len(s) THEN 0
    ELSE IF DotMatches(CharAt(s, k)) THEN LazyUntilFence(s, k + 1)
    ELSE 0

\* The pattern tried at start position i: (matched, group(1)).
MatchAt(s, i) ==
    IF i + Len(FenceOpen) - 1 <= Len(s) /\ TagMatches(SubSeq(s, i, i + Len(FenceOpen) - 1))
    THEN LET b == SkipSpace(s, i + Len(FenceOpen))
             e == LazyUntilFence(s, b)
         IN  IF e = 0 THEN [found |-> FALSE, group |-> ""]
             ELSE [found |-> TRUE, group |-> SubSeq(s, b, e - 1)]
    ELSE [found |-> FALSE, group |-> ""]

\* re.search: the leftmost start position at which the pattern matches.
RECURSIVE SearchFrom(_, _)
SearchFrom(s, i) ==
    IF i > Len(s) THEN [found |-> FALSE, group |-> ""]
    ELSE IF MatchAt(s, i).found THEN MatchAt(s, i)
    ELSE SearchFrom(s, i + 1)

re_search(s) == SearchFrom(s, 1)

\* The extraction with the .strip() calls left out.
extract_unstripped(s) == IF re_search(s).found THEN re_search(s).group ELSE s

\* Lines 124-128: the body of the fenced block, else the whole response,
\* stripped either way.
extract_code(s) ==
    IF re_search(s).found THEN strip(re_search(s).group) ELSE strip(s)

----------------------------------------------------------------------------
(* is_code_safe: the denylist scan.                                        *)

BLOCKED_PATTERNS == <<"import os", "import subprocess", "open(", "eval(", "exec(">>

\* The message of line 148 and the message of line 149.
BlockedMessage(pat) == "Blocked pattern found: " \o pat
SafeMessage == "Code is safe"

\* The scan reporting the last matching pattern instead of the first.
RECURSIVE scan_last(_, _)
scan_last(text, i) ==
    IF i < 1 THEN [safe |-> TRUE, msg |-> SafeMessage]
    ELSE IF PyIn(BLOCKED_PATTERNS[i], text)
         THEN [safe |-> FALSE, msg |-> BlockedMessage(BLOCKED_PATTERNS[i])]
         ELSE scan_last(text, i - 1)

is_code_safe_last(text) == scan_last(text, Len(BLOCKED_PATTERNS))

\* The scan with a prefix test in place of `in`.
RECURSIVE scan_prefix(_, _)
scan_prefix(text, i) ==
    IF i > Len(BLOCKED_PATTERNS) THEN [safe |-> TRUE, msg |-> SafeMessage]
    ELSE IF PyStartsWith(BLOCKED_PATTERNS[i], text)
         THEN [safe |-> FALSE, msg |-> BlockedMessage(BLOCKED_PATTERNS[i])]
         ELSE scan_prefix(text, i + 1)

is_code_safe_prefix(text) == scan_prefix(text, 1)

\* Lines 146-149: the loop over the patterns from index i on, returning at
\* the first pattern that occurs in the text.
RECURSIVE scan_patterns(_, _)
scan_patterns(text, i) ==
    IF i > Len(BLOCKED_PATTERNS) THEN [safe |-> TRUE, msg |-> SafeMessage]
    ELSE IF PyIn(BLOCKED_PATTERNS[i], text)
         THEN [safe |-> FALSE, msg |-> BlockedMessage(BLOCKED_PATTERNS[i])]
         ELSE scan_patterns(text, i + 1)

is_code_safe(text) == scan_patterns(text, 1)

\* No call of is_code_safe has returned yet.
NoVerdict == [safe |-> FALSE, msg |-> "<none>"]

----------------------------------------------------------------------------
(* run_generated_code: the scope and the text handed to exec.              *)

HELPERS ==
    "\n# --- helpers injected by the runner ---\n"
    \o "SCREEN_WIDTH, SCREEN_HEIGHT = autopy.screen.size()\n"
    \o "def bbox_to_center(b):\n"
    \o "    x1, y1, x2, y2 = b\n"
    \o "    cx = int(((x1 + x2) / 2) * SCREEN_WIDTH)\n"
    \o "    cy = int(((y1 + y2) / 2) * SCREEN_HEIGHT)\n"
    \o "    return cx, cy\n"

\* The text built from the response again instead of from the argument.
FullCodeFromResponse(text) == HELPERS \o "\n\n" \o strip(raw)

\* Line 173.
FullCode(text) == HELPERS \o "\n\n" \o text

\* Lines 166-171: the keys of the dict g.
ExecGlobals == {"autopy", "keyboard", "time", "UI_ELEMENTS"}

\* The names the HELPERS text binds in g when it runs (lines 153-154).
HelperNames == {"SCREEN_WIDTH", "SCREEN_HEIGHT", "bbox_to_center"}

\* exec(full_code, g, None) on a dict g without the key __builtins__: the
\* interpreter inserts the builtins module under that key (line 175).
\* Names of that module the model's scripts can refer to.
BuiltinNames == {"__import__", "open", "eval", "exec", "print", "int"}

\* A name lookup inside the script: globals first, then the builtins.
Reachable(names) ==
    names \cup (IF "__builtins__" \in names THEN BuiltinNames ELSE {})

\* The refusal left out: nothing is ever refused.
RefusesNothing(v) == FALSE

\* Line 163: `if not safe`.
Refuses(v) == ~v.safe

RefusalMessage(msg) == "Refusing to execute untrusted code: " \o msg

----------------------------------------------------------------------------
(* exec: the statements of the script and what each does.                  *)

\* Position of the first newline of s, 0 if it has none.
RECURSIVE NewlineFrom(_, _)
NewlineFrom(s, i) ==
    IF i > Len(s) THEN 0
    ELSE IF CharAt(s, i) = "\n" THEN i ELSE NewlineFrom(s, i + 1)

\* str.splitlines on "\n".
RECURSIVE Lines(_)
Lines(s) ==
    LET n == NewlineFrom(s, 1)
    IN  IF n = 0 THEN <<s>>
        ELSE <<SubSeq(s, 1, n - 1)>> \o Lines(SubSeq(s, n + 1, Len(s)))

\* The lines of the text that follows the helpers in full_code, blank
\* lines dropped.
ScriptLines(full) ==
    SelectSeq(Lines(SubSeq(full, Len(HELPERS) + 3, Len(full))),
              LAMBDA l : strip(l) # "")

\* The statements the interpreter is modelled on: the name each one looks
\* up and the capability it exercises through that name.
Stmt(line) ==
    CASE line = "keyboard.write('hi')"    -> [name |-> "keyboard", kind |-> "device", act |-> "keyboard.write"]
      [] line = "autopy.mouse.move(1, 2)" -> [name |-> "autopy", kind |-> "device", act |-> "mouse.move"]
      [] line = "open('f')"               -> [name |-> "open", kind |-> "file", act |-> "open"]
      [] line = "Open('f')"               -> [name |-> "Open", kind |-> "file", act |-> "Open"]
      [] line = "__import__('os')"        -> [name |-> "__import__", kind |-> "module", act |-> "__import__"]
      [] line = "import os"               -> [name |-> "__import__", kind |-> "module", act |-> "import"]
      [] line = "UI_ELEMENTS.clear()"     -> [name |-> "UI_ELEMENTS", kind |-> "mutate", act |-> "clear"]
      [] line = "while True: pass"        -> [name |-> "", kind |-> "loop", act |-> ""]
      [] OTHER                            -> [name |-> "", kind |-> "invalid", act |-> ""]

\* compile(): every statement of the script is one the grammar accepts.  A
\* line of prose, a fence line or an indented top-level line is a
\* SyntaxError raised before any statement runs.
Compiles(full) ==
    \A k \in 1..Len(ScriptLines(full)) : Stmt(ScriptLines(full)[k]).kind # "invalid"

----------------------------------------------------------------------------
(* The responses of the external collaborators.                            *)

\* resp of client.models.generate_content: the call raises (ok = FALSE),
\* or returns with resp.text None (hasText = FALSE) or a string.
Response(ok, hasText, text) == [ok |-> ok, hasText |-> hasText, text |-> text]

\* `resp.text or ""` (lines 69 and 122).
TextOr(resp) == IF resp.hasText THEN resp.text ELSE ""

TranscriptionTexts == {"", " \n", "type hi"}

\* The pieces a generation response is put together from.
Parts ==
    { FenceOpen \o "\nkeyboard.write('hi')\n" \o FenceClose \o "\n",
      BQ \o BQ \o BQ \o "Python open('f')\n" \o FenceClose,
      FenceOpen \o "\n",
      FenceClose,
      " \n",
      "Sure:\n",
      "keyboard.write('hi')\n",
      "autopy.mouse.move(1, 2)\n",
      "open('f')\n",
      "Open('f')\n",
      "__import__('os')\n",
      "import os\n",
      "UI_ELEMENTS.clear()\n",
      "while True: pass\n" }

RECURSIVE Join(_)
Join(ps) == IF ps = <<>> THEN "" ELSE Head(ps) \o Join(Tail(ps))

GenerationTexts == { Join(ps) : ps \in UNION { [1..n -> Parts] : n \in 0..MaxParts } }

----------------------------------------------------------------------------
(* The catalog and the coordinate conversion.                              *)

\* The coordinate 1.0: bbox coordinates are counted in ten-thousandths, the
\* precision the catalog is written in (line 75).
Unit == 10000

\* Lines 77-84: id and bbox of each element.
UI_ELEMENTS ==
    << [id |-> 20, bbox |-> <<2415, 3639, 4785, 4234>>],
       [id |-> 18, bbox |-> <<5120, 3666, 5751, 4196>>],
       [id |-> 19, bbox |-> <<5808, 3667, 6476, 4194>>],
       [id |-> 17, bbox |-> <<2421, 5527, 4795, 6748>>],
       [id |-> 16, bbox |-> <<5104, 5523, 7490, 6773>>],
       [id |-> 21, bbox |-> <<2447, 7994, 3012, 8506>>] >>

\* int(n / d) for d > 0: the quotient with its fraction dropped, toward zero.
PyInt(n, d) == IF n >= 0 THEN n \div d ELSE -((-n) \div d)

\* round(n / d) for d > 0: to the nearest integer, a half to the even one.
PyRound(n, d) ==
    LET q == n \div d
        r == n % d
    IN  IF 2 * r < d THEN q
        ELSE IF 2 * r > d THEN q + 1
        ELSE IF q % 2 = 0 THEN q ELSE q + 1

\* bbox_to_center has not returned.
NoCenter == [status |-> "none", x |-> 0, y |-> 0]

\* The conversion with round() in place of int().
bbox_to_center_rounded(b, scr) ==
    [status |-> "ok",
     x |-> PyRound((b[1] + b[3]) * scr[1], 2 * Unit),
     y |-> PyRound((b[2] + b[4]) * scr[2], 2 * Unit)]

\* The conversion with the two screen dimensions exchanged.
bbox_to_center_swapped(b, scr) ==
    [status |-> "ok",
     x |-> PyInt((b[1] + b[3]) * scr[2], 2 * Unit),
     y |-> PyInt((b[2] + b[4]) * scr[1], 2 * Unit)]

\* Lines 154-158: cx = int(((x1 + x2) / 2) * SCREEN_WIDTH), cy likewise with
\* SCREEN_HEIGHT; no test of b precedes them and the pair is returned.
bbox_to_center(b, scr) ==
    [status |-> "ok",
     x |-> PyInt((b[1] + b[3]) * scr[1], 2 * Unit),
     y |-> PyInt((b[2] + b[4]) * scr[2], 2 * Unit)]

----------------------------------------------------------------------------
(* main(): the stages and the steps between them.                          *)

Stages == <<"Idle", "Capturing", "Connecting", "Transcribing", "Generating",
            "Extracting", "Validating", "Executing", "Done">>

InitRun ==
    /\ pc = "Idle"
    /\ history = <<>>
    /\ failedAt = ""
    /\ cause = ""
    /\ hostAlive = TRUE
    /\ transcript = ""
    /\ raw = ""
    /\ code = ""
    /\ scanned = ""
    /\ verdict = NoVerdict
    /\ g = {}
    /\ full_code = ""
    /\ executed = FALSE
    /\ ip = 0
    /\ deviceLog = <<>>
    /\ effects = {}
    /\ result = "None"
    /\ catalog = UI_ELEMENTS
    /\ spin = FALSE
    /\ tmpfiles = {}
    /\ peer = [pc |-> "Idle", ip |-> 0]

\* The run as the process starts it; bbox_to_center has not been called.
Init ==
    /\ InitRun
    /\ bbox = <<0, 0, 0, 0>>
    /\ screen = <<0, 0>>
    /\ center = NoCenter

\* The exception caught and noted where it was raised, the run going on to
\* the stage `next` as if the statement had returned.
Swallow(msg, next) ==
    /\ pc' = next
    /\ history' = Append(history, pc)
    /\ failedAt' = pc
    /\ cause' = msg
    /\ hostAlive' = hostAlive
    /\ tmpfiles' = tmpfiles

\* The exception ending the run with its message lost.
RaiseWithoutCause(msg, next) ==
    /\ pc' = "Error"
    /\ history' = Append(history, pc)
    /\ failedAt' = pc
    /\ cause' = ""
    /\ hostAlive' = FALSE
    /\ tmpfiles' = {}

\* The exception ending the run with the temporary directory left behind.
RaiseLeavingFiles(msg, next) ==
    /\ pc' = "Error"
    /\ history' = Append(history, pc)
    /\ failedAt' = pc
    /\ cause' = msg
    /\ hostAlive' = FALSE
    /\ tmpfiles' = tmpfiles

\* An exception raised in the current stage.  Nothing in main() or in the
\* functions it calls catches it (lines 180-198): it leaves main() and the
\* interpreter ends the process with a traceback.  On the way out the
\* with-block of line 181 removes the temporary directory and what is in it.
Raise(msg, next) ==
    /\ pc' = "Error"
    /\ history' = Append(history, pc)
    /\ failedAt' = pc
    /\ cause' = msg
    /\ hostAlive' = FALSE
    /\ tmpfiles' = {}

\* The statement returned: on to the stage `next`.
Advance(next) ==
    /\ pc' = next
    /\ history' = Append(history, pc)
    /\ UNCHANGED <<failedAt, cause, hostAlive>>

\* tempfile.TemporaryDirectory() and the file main records into (lines
\* 181-182).
TempDir == "td"
WavPath == "td/user_command.wav"

\* main() is entered and the temporary directory made (lines 180-181).
StartRun ==
    /\ pc = "Idle"
    /\ Advance("Capturing")
    /\ tmpfiles' = {TempDir}
    /\ UNCHANGED <<transcript, raw, code, scanned, verdict, g, full_code,
                   executed, ip, deviceLog, effects, result>>
    /\ UNCHANGED <<catalog, spin, peer, mapperVars>>

\* record_audio_wav (line 183): the device records, or sounddevice raises.
RecordAudio ==
    /\ pc = "Capturing"
    /\ \E ok \in BOOLEAN :
          IF ok THEN Advance("Connecting") /\ tmpfiles' = tmpfiles \cup {WavPath}
          ELSE Raise("PortAudioError", "Connecting")
    /\ UNCHANGED <<transcript, raw, code, scanned, verdict, g, full_code,
                   executed, ip, deviceLog, effects, result>>
    /\ UNCHANGED <<catalog, spin, peer, mapperVars>>

\* make_gemini_client (lines 42-49).
MakeClient ==
    /\ pc = "Connecting"
    /\ \E api_key \in {"", "key"} :
          IF api_key = ""
          THEN Raise("Set GEMINI_API_KEY (or GOOGLE_API_KEY) in your environment.",
                     "Transcribing")
          ELSE Advance("Transcribing") /\ UNCHANGED tmpfiles
    /\ UNCHANGED <<transcript, raw, code, scanned, verdict, g, full_code,
                   executed, ip, deviceLog, effects, result>>
    /\ UNCHANGED <<catalog, spin, peer, mapperVars>>

\* transcribe_with_gemini (lines 51-71).
Transcribe ==
    /\ pc = "Transcribing"
    /\ \E resp \in {Response(FALSE, FALSE, "")} \cup {Response(TRUE, FALSE, "")}
                   \cup {Response(TRUE, TRUE, t) : t \in TranscriptionTexts} :
          IF ~resp.ok
          THEN Raise("APIError", "Generating") /\ UNCHANGED transcript
          ELSE Advance("Generating") /\ transcript' = strip(TextOr(resp))
                                     /\ UNCHANGED tmpfiles
    /\ UNCHANGED <<raw, code, scanned, verdict, g, full_code,
                   executed, ip, deviceLog, effects, result>>
    /\ UNCHANGED <<catalog, spin, peer, mapperVars>>

\* request_code_from_gemini, the call (lines 117-122).
Generate ==
    /\ pc = "Generating"
    /\ \E resp \in {Response(FALSE, FALSE, "")} \cup {Response(TRUE, FALSE, "")}
                   \cup {Response(TRUE, TRUE, t) : t \in GenerationTexts} :
          IF ~resp.ok
          THEN Raise("APIError", "Extracting") /\ UNCHANGED raw
          ELSE Advance("Extracting") /\ raw' = TextOr(resp) /\ UNCHANGED tmpfiles
    /\ UNCHANGED <<transcript, code, scanned, verdict, g, full_code,
                   executed, ip, deviceLog, effects, result>>
    /\ UNCHANGED <<catalog, spin, peer, mapperVars>>

\* The emptiness test applied to the fallback only.
NoScriptInFallback(body) == body = "" /\ ~re_search(raw).found

\* Line 129: `if not code`.
NoScript(body) == body = ""

\* request_code_from_gemini, the extraction (lines 124-131).
Extract ==
    /\ pc = "Extracting"
    /\ IF NoScript(extract_code(raw))
       THEN Raise("Model did not return Python code.", "Validating") /\ UNCHANGED code
       ELSE Advance("Validating") /\ code' = extract_code(raw) /\ UNCHANGED tmpfiles
    /\ UNCHANGED <<transcript, raw, scanned, verdict, g, full_code,
                   executed, ip, deviceLog, effects, result>>
    /\ UNCHANGED <<catalog, spin, peer, mapperVars>>

\* run_generated_code up to the call of exec (lines 162-174).
Validate ==
    /\ pc = "Validating"
    /\ scanned' = code
    /\ verdict' = is_code_safe(code)
    /\ IF Refuses(verdict')
       THEN /\ Raise(RefusalMessage(verdict'.msg), "Executing")
            /\ UNCHANGED <<g, full_code>>
       ELSE /\ Advance("Executing")
            /\ g' = ExecGlobals
            /\ full_code' = FullCode(code)
            /\ UNCHANGED tmpfiles
    /\ UNCHANGED <<transcript, raw, code, executed, ip, deviceLog, effects, result>>
    /\ UNCHANGED <<catalog, spin, peer, mapperVars>>

\* exec(full_code, g, None) is entered (line 175): the builtins are put in
\* g, the text is compiled, the helpers run.
ExecEnter ==
    /\ pc = "Executing" /\ ~executed
    /\ executed' = TRUE
    /\ IF Compiles(full_code)
       THEN /\ g' = g \cup {"__builtins__"} \cup HelperNames
            /\ ip' = 1
            /\ UNCHANGED <<pc, history, failedAt, cause, hostAlive, tmpfiles>>
       ELSE /\ g' = g \cup {"__builtins__"}
            /\ ip' = ip
            /\ Raise("SyntaxError", "Executing")
    /\ UNCHANGED <<transcript, raw, code, scanned, verdict, full_code,
                   deviceLog, effects, result>>
    /\ UNCHANGED <<catalog, spin, peer, mapperVars>>

\* One statement of the script runs.  A `while True: pass` goes from its
\* test to its body and back without end; any other statement resolves its
\* name, raising NameError if it is unbound, and acts through it.
ExecStatement ==
    /\ pc = "Executing" /\ executed /\ ip >= 1 /\ ip <= Len(ScriptLines(full_code))
    /\ LET st == Stmt(ScriptLines(full_code)[ip])
       IN  IF st.kind = "loop"
           THEN /\ spin' = ~spin
                /\ UNCHANGED <<ip, deviceLog, effects, catalog>>
                /\ UNCHANGED <<pc, history, failedAt, cause, hostAlive, tmpfiles>>
           ELSE IF st.name \notin Reachable(g)
           THEN /\ Raise("NameError: " \o st.name, "Executing")
                /\ UNCHANGED <<ip, deviceLog, effects, catalog, spin>>
           ELSE /\ ip' = ip + 1
                /\ deviceLog' = IF st.kind = "device" THEN Append(deviceLog, st.act)
                                ELSE deviceLog
                /\ effects' = IF st.kind = "device" THEN effects
                              ELSE effects \cup {st.kind}
                /\ catalog' = IF st.kind = "mutate" THEN <<>> ELSE catalog
                /\ UNCHANGED <<pc, history, failedAt, cause, hostAlive, tmpfiles, spin>>
    /\ UNCHANGED <<transcript, raw, code, scanned, verdict, g, full_code,
                   executed, result>>
    /\ UNCHANGED <<peer, mapperVars>>

\* exec returns, run_generated_code returns, main prints Done (line 196)
\* and leaves the with-block, which removes the temporary directory.
ExecReturn ==
    /\ pc = "Executing" /\ executed /\ ip > Len(ScriptLines(full_code))
    /\ Advance("Done")
    /\ tmpfiles' = {}
    /\ result' = "Completed"
    /\ UNCHANGED <<transcript, raw, code, scanned, verdict, g, full_code,
                   executed, ip, deviceLog, effects>>
    /\ UNCHANGED <<catalog, spin, peer, mapperVars>>

Next ==
    \/ StartRun
    \/ RecordAudio
    \/ MakeClient
    \/ Transcribe
    \/ Generate
    \/ Extract
    \/ Validate
    \/ ExecEnter
    \/ ExecStatement
    \/ ExecReturn

Spec == Init /\ [][Next]_vars

----------------------------------------------------------------------------
(* A second run on the same host.                                          *)

\* The device actions of the other run's script, already accepted.
PeerScript == <<"other: mouse.move", "other: keyboard.write">>

\* The other run enters exec (line 175).  run_generated_code takes no lock
\* and tests nothing about other runs (lines 161-175).
PeerEnter ==
    /\ peer.pc = "Idle"
    /\ peer' = [pc |-> "Executing", ip |-> 1]
    /\ UNCHANGED <<pc, history, failedAt, cause, hostAlive, transcript, raw, code,
                   scanned, verdict, g, full_code, executed, ip, deviceLog, effects,
                   result, catalog, spin, tmpfiles, mapperVars>>

\* One device action of the other run reaches the devices both runs drive.
PeerStatement ==
    /\ peer.pc = "Executing" /\ peer.ip <= Len(PeerScript)
    /\ deviceLog' = Append(deviceLog, PeerScript[peer.ip])
    /\ peer' = [peer EXCEPT !.ip = @ + 1]
    /\ UNCHANGED <<pc, history, failedAt, cause, hostAlive, transcript, raw, code,
                   scanned, verdict, g, full_code, executed, ip, effects,
                   result, catalog, spin, tmpfiles, mapperVars>>

\* The other run's exec returns.
PeerReturn ==
    /\ peer.pc = "Executing" /\ peer.ip > Len(PeerScript)
    /\ peer' = [peer EXCEPT !.pc = "Done"]
    /\ UNCHANGED <<pc, history, failedAt, cause, hostAlive, transcript, raw, code,
                   scanned, verdict, g, full_code, executed, ip, deviceLog, effects,
                   result, catalog, spin, tmpfiles, mapperVars>>

NextHost ==
    \/ Next
    \/ PeerEnter
    \/ PeerStatement
    \/ PeerReturn

\* Two runs on one host.
SpecHost == Init /\ [][NextHost]_vars

\* Extract is enabled exactly when pc = "Extracting" and each step of it
\* leaves that stage, so its weak fairness is that the run does not stay
\* there for ever.
ExtractFair == []<>(pc # "Extracting")

\* One run whose steps are always taken in the end: the interpreter does
\* not stop by itself and every external call returns or raises.
FairSpec ==
    /\ Spec
    /\ WF_vars(StartRun) /\ WF_vars(RecordAudio) /\ WF_vars(MakeClient)
    /\ WF_vars(Transcribe) /\ WF_vars(Generate) /\ ExtractFair
    /\ WF_vars(Validate) /\ WF_vars(ExecEnter) /\ WF_vars(ExecStatement)
    /\ WF_vars(ExecReturn)

----------------------------------------------------------------------------
(* bbox_to_center called with arbitrary arguments.                         *)

\* Coordinates are taken on a grid of GridN steps from 0.0 to 1.0, going
\* one step below 0.0 and one step above 1.0.
GridN == 4

\* Largest screen width and height, in pixels.
MaxScreen == 3

Coords == {(k * Unit) \div GridN : k \in -1..(GridN + 1)}

Bboxes == {<<x1, y1, x2, y2>> : x1 \in Coords, y1 \in Coords,
                                x2 \in Coords, y2 \in Coords}

Screens == {<<w, h>> : w \in 1..MaxScreen, h \in 1..MaxScreen}

\* Before the call: any four numbers as b, any screen size.
InitMapper ==
    /\ InitRun
    /\ bbox \in Bboxes
    /\ screen \in Screens
    /\ center = NoCenter

\* Lines 154-158: the call returns the pair.
CallMapper ==
    /\ center = NoCenter
    /\ center' = bbox_to_center(bbox, screen)
    /\ UNCHANGED <<pc, history, failedAt, cause, hostAlive, transcript, raw, code,
                   scanned, verdict, g, full_code, executed, ip, deviceLog, effects,
                   result, catalog, spin, tmpfiles, peer, bbox, screen>>

NextMapper == CallMapper

SpecMapper == InitMapper /\ [][NextMapper]_vars

----------------------------------------------------------------------------
(* Properties.                                                             *)

Entered(stage) == \E k \in 1..Len(history) : history[k] = stage

Rejected == verdict # NoVerdict /\ ~verdict.safe

\* pat occurs in text at position i, compared character by character.
OccursAt(pat, text, i) ==
    /\ i + Len(pat) - 1 <= Len(text)
    /\ \A k \in 1..Len(pat) : CharAt(text, i + k - 1) = CharAt(pat, k)

Occurs(pat, text) == \E i \in 1..Len(text) : OccursAt(pat, text, i)

\* C1: the script is executed only after is_code_safe has accepted it; on
\* any other verdict run_generated_code raises its refusal, exec is never
\* entered and no device primitive or other capability is exercised.
ExecOnlyAfterAccepted ==
    /\ (executed \/ deviceLog # <<>> \/ effects # {}) => (verdict.safe /\ scanned = code)
    /\ Rejected => /\ pc = "Error"
                   /\ failedAt = "Validating"
                   /\ cause = RefusalMessage(verdict.msg)
                   /\ ~executed
                   /\ deviceLog = <<>>
                   /\ effects = {}

RefusedWitness == Rejected /\ pc = "Error" /\ ~executed /\ Occurs("open(", code)

\* The bindings the scope is meant to hold, and the names that give module
\* loading, file I/O and dynamic evaluation.
ApprovedNames == ExecGlobals \cup HelperNames
DangerousNames == {"__import__", "open", "eval", "exec"}

\* C2: the scope handed to the script holds only the approved bindings; no
\* name giving module loading, file I/O or dynamic evaluation resolves in it
\* and no script exercises such a capability.
ScopeHoldsOnlyApproved ==
    executed => /\ g \subseteq ApprovedNames
                /\ Reachable(g) \cap DangerousNames = {}
                /\ effects = {}

\* C3: is_code_safe rejects exactly the texts in which at least one blocked
\* pattern occurs as a case-sensitive literal substring, at any position.
RejectedIffPatternOccurs ==
    verdict # NoVerdict =>
        (~verdict.safe <=>
            \E k \in 1..Len(BLOCKED_PATTERNS) : Occurs(BLOCKED_PATTERNS[k], scanned))

\* A rejection of a body in which no pattern stands at the start: the
\* pattern found lies further inside.
RejectedInsideWitness ==
    /\ Rejected
    /\ \A k \in 1..Len(BLOCKED_PATTERNS) : ~OccursAt(BLOCKED_PATTERNS[k], scanned, 1)

\* The first entry of BLOCKED_PATTERNS, in configured order, that occurs in
\* the text (0 if none does).
FirstBlocked(text) ==
    LET hits == {k \in 1..Len(BLOCKED_PATTERNS) : Occurs(BLOCKED_PATTERNS[k], text)}
    IN  IF hits = {} THEN 0 ELSE CHOOSE k \in hits : \A j \in hits : k <= j

\* C4 as claimed: the reason of a rejection is "blocked pattern: " followed
\* by the first configured pattern that occurs, a body containing open( is
\* rejected with "blocked pattern: open(", and exec is not entered.
ReasonAsClaimed ==
    Rejected =>
        /\ verdict.msg = "blocked pattern: " \o BLOCKED_PATTERNS[FirstBlocked(scanned)]
        /\ Occurs("open(", scanned) => verdict.msg = "blocked pattern: open("
        /\ ~executed

\* C4 amended: the reason of a rejection is "Blocked pattern found: "
\* followed by the first entry of BLOCKED_PATTERNS, in configured order, that
\* occurs in the body; a body containing open( and neither import os nor
\* import subprocess is rejected with "Blocked pattern found: open("; the
\* run ends with the refusal carrying that reason and exec is never entered.
ReasonIsFirstBlocked ==
    Rejected =>
        /\ FirstBlocked(scanned) # 0
        /\ verdict.msg = "Blocked pattern found: " \o BLOCKED_PATTERNS[FirstBlocked(scanned)]
        /\ (Occurs("open(", scanned) /\ ~Occurs("import os", scanned)
                /\ ~Occurs("import subprocess", scanned))
             => verdict.msg = "Blocked pattern found: open("
        /\ cause = "Refusing to execute untrusted code: " \o verdict.msg
        /\ ~executed

\* A rejected body in which open( comes first in the text and import os,
\* the earlier entry of the list, comes after it.
TwoPatternsWitness ==
    /\ Rejected
    /\ OccursAt("open(", scanned, 1)
    /\ Occurs("import os", scanned)
    /\ verdict.msg = "Blocked pattern found: import os"

\* C5: a condition raised while the accepted script executes is caught at
\* the executor boundary and becomes a Failed result; it does not leave the
\* executor and does not end the host process.
ExecFailureIsCaught ==
    failedAt = "Executing" => (result = "Failed" /\ hostAlive)

\* The stages of the pipeline, in order.
PipelineOrder == <<"Capturing", "Transcribing", "Generating", "Extracting",
                   "Validating", "Executing">>

StageIndex(stage) == CHOOSE k \in 1..Len(Stages) : Stages[k] = stage

Path == Append(history, pc)

\* C6: the stages are entered strictly in pipeline order; a stage in which
\* something fails is followed by Error, carrying that stage and its cause,
\* and by nothing else: no later stage is entered and exec is not reached.
StagesInOrder ==
    /\ \A k \in 1..Len(history) :
          /\ history[k] \notin {"Done", "Error"}
          /\ Path[k + 1] = "Error" \/ StageIndex(Path[k + 1]) = StageIndex(history[k]) + 1
    /\ LET seen == SelectSeq(Path, LAMBDA st : \E k \in 1..Len(PipelineOrder) : PipelineOrder[k] = st)
       IN  seen = SubSeq(PipelineOrder, 1, Len(seen))
    /\ failedAt # "" => /\ pc = "Error"
                        /\ history[Len(history)] = failedAt
                        /\ cause # ""
    /\ pc = "Error" => failedAt # ""
    /\ (failedAt # "" /\ failedAt # "Executing") => (~executed /\ deviceLog = <<>>)

FailedMidwayWitness == pc = "Error" /\ failedAt = "Extracting" /\ ~Entered("Validating")

\* C7 as claimed: the text handed to exec is exactly the text that
\* is_code_safe scanned.
ExecutedIsScanned == executed => full_code = scanned

\* C7 amended: the text handed to exec is the fixed helper text, two
\* newlines, and then exactly the text is_code_safe scanned, which is the
\* extracted script unaltered; no blocked pattern occurs anywhere in the
\* text handed to exec.
ExecutedIsHelpersThenScanned ==
    executed =>
        /\ SubSeq(full_code, 1, Len(HELPERS) + 2) = HELPERS \o "\n\n"
        /\ SubSeq(full_code, Len(HELPERS) + 3, Len(full_code)) = scanned
        /\ scanned = code
        /\ \A k \in 1..Len(BLOCKED_PATTERNS) : ~Occurs(BLOCKED_PATTERNS[k], full_code)

\* A script taken from a fenced block inside a longer response has run.
ExecutedExtractWitness == executed /\ pc = "Done" /\ deviceLog # <<>> /\ strip(raw) # code

\* C8: an empty response of the transcription call, or of the generation
\* call, fails the run in that call: the run does not go on to generation
\* with an empty transcript, nor to validation with an empty response.
EmptyResponseFails ==
    /\ (Entered("Transcribing") /\ transcript = "") =>
           (failedAt = "Transcribing" /\ ~Entered("Generating") /\ pc # "Generating")
    /\ (Entered("Generating") /\ raw = "") =>
           (~Entered("Validating") /\ pc # "Validating")

\* A fenced block of the response: the tag starts at i, in any letter case,
\* and the first closing fence after the tag starts at j.
OpensAt(text, i) ==
    /\ i + Len(FenceOpen) - 1 <= Len(text)
    /\ \A k \in 1..Len(FenceOpen) : LowerChar(CharAt(text, i + k - 1)) = CharAt(FenceOpen, k)

ClosesAt(text, j) ==
    j + 2 <= Len(text) /\ \A k \in 0..2 : CharAt(text, j + k) = BQ

Block(text, i, j) ==
    /\ OpensAt(text, i)
    /\ j >= i + Len(FenceOpen)
    /\ ClosesAt(text, j)
    /\ \A m \in (i + Len(FenceOpen))..(j - 1) : ~ClosesAt(text, m)

BlockStarts(text) ==
    {i \in 1..Len(text) : OpensAt(text, i) /\ \E j \in i..Len(text) : Block(text, i, j)}

HasBlock(text) == BlockStarts(text) # {}

\* The body of the first fenced block: what lies between its tag and its
\* closing fence.
FirstBlockBody(text) ==
    LET i == CHOOSE a \in BlockStarts(text) : \A b \in BlockStarts(text) : a <= b
        j == CHOOSE b \in i..Len(text) : Block(text, i, b)
    IN  SubSeq(text, i + Len(FenceOpen), j - 1)

\* The script the response stands for.
ExpectedBody(text) ==
    IF HasBlock(text) THEN strip(FirstBlockBody(text)) ELSE strip(text)

\* C9 as claimed: extraction fails only when the response has no fenced
\* block and its trimmed text is empty.
FailsOnlyOnEmptyFallback ==
    failedAt = "Extracting" => (~HasBlock(raw) /\ strip(raw) = "")

\* C9 amended: extraction fails exactly when the extracted body is empty:
\* the response has a fenced block whose trimmed body is empty, or it has
\* none and its trimmed text is empty; it succeeds on every other response.
\* When it fails the run is in Error and Validating was never entered.
FailsIffBodyEmpty ==
    Entered("Extracting") =>
        /\ failedAt = "Extracting" <=>
              IF HasBlock(raw) THEN strip(FirstBlockBody(raw)) = "" ELSE strip(raw) = ""
        /\ failedAt = "Extracting" =>
              (pc = "Error" /\ ~Entered("Validating") /\ verdict = NoVerdict)
        /\ failedAt # "Extracting" => (Entered("Validating") \/ pc = "Validating")

EmptyBlockWitness == failedAt = "Extracting" /\ HasBlock(raw) /\ strip(raw) # ""

\* C10: the extracted script is the whitespace-trimmed body of the fenced
\* block when the response has one, and the whole whitespace-trimmed
\* response when it has none.
ExtractedIsTrimmedBody ==
    (Entered("Extracting") /\ failedAt # "Extracting") => code = ExpectedBody(raw)

\* A body cut out of a response with text before and after the block, and
\* with whitespace around the body.
TrimmedBlockWitness ==
    /\ pc = "Validating"
    /\ HasBlock(raw)
    /\ ~OpensAt(raw, 1)
    /\ code # FirstBlockBody(raw)
    /\ Len(code) + Len(FenceOpen) + Len(FenceClose) + 2 < Len(raw)

\* C11: the catalog is never changed by the script that runs: its elements
\* and their fields stay as they were when the run began.
CatalogUnchanged == catalog = UI_ELEMENTS

\* C12: with two runs on the host at most one is executing its script at
\* any time.
OneExecutingAtATime == ~(pc = "Executing" /\ executed /\ peer.pc = "Executing")

\* C13: a run that has ended has reported exactly one outcome, Done with
\* the execution result or Error with a cause, never both and never
\* neither; nothing is done after Done or Error; a run that has not ended
\* has reported neither.
OneTerminalOutcome ==
    /\ pc = "Done" => (result = "Completed" /\ cause = "" /\ failedAt = "" /\ hostAlive)
    /\ pc = "Error" => (cause # "" /\ result = "None" /\ ~hostAlive)
    /\ pc \notin {"Done", "Error"} => (result = "None" /\ cause = "")
    /\ \A k \in 1..Len(history) : history[k] \notin {"Done", "Error"}
    /\ pc \in {"Done", "Error"} => ~ENABLED Next

\* A run ended by an exception of the script after a device action of it.
BothOutcomesWitness == pc = "Error" /\ failedAt = "Executing" /\ deviceLog # <<>>

\* C14: every run reaches Done or Error in the end, a script that never
\* finishes being cut off.
RunTerminates == <>(pc \in {"Done", "Error"})

\* The bbox satisfies 0 <= x1 <= x2 <= 1 and 0 <= y1 <= y2 <= 1.
ValidBbox(b) ==
    /\ 0 <= b[1] /\ b[1] <= b[3] /\ b[3] <= Unit
    /\ 0 <= b[2] /\ b[2] <= b[4] /\ b[4] <= Unit

\* C15: the conversion fails with InvalidBbox for every bbox that has a
\* coordinate outside [0,1] or x1 > x2 or y1 > y2, and returns a pixel pair
\* only for a bbox with 0 <= x1 <= x2 <= 1 and 0 <= y1 <= y2 <= 1.
FailsOnInvalidBbox ==
    center # NoCenter =>
        /\ ~ValidBbox(bbox) => center.status = "InvalidBbox"
        /\ center.status = "ok" => ValidBbox(bbox)

\* C16, as the spec states it: for a valid bbox the pair returned is
\* (round((x1+x2)/2*W), round((y1+y2)/2*H)).
ReturnsRoundedCenter ==
    (center # NoCenter /\ ValidBbox(bbox)) =>
        /\ center.status = "ok"
        /\ center.x = PyRound((bbox[1] + bbox[3]) * screen[1], 2 * Unit)
        /\ center.y = PyRound((bbox[2] + bbox[4]) * screen[2], 2 * Unit)

\* C16, amended: for a valid bbox each component returned is the largest
\* integer not above the scaled center, (x1+x2)/2*W and (y1+y2)/2*H; it is
\* the rounded value when the fraction of the scaled center is below one
\* half and one less than it when the fraction is above one half.
ReturnsFlooredCenter ==
    (center # NoCenter /\ ValidBbox(bbox)) =>
        LET nx == (bbox[1] + bbox[3]) * screen[1]
            ny == (bbox[2] + bbox[4]) * screen[2]
            d  == 2 * Unit
        IN  /\ center.status = "ok"
            /\ center.x * d <= nx /\ nx < (center.x + 1) * d
            /\ center.y * d <= ny /\ ny < (center.y + 1) * d
            /\ 2 * (nx - center.x * d) < d => center.x = PyRound(nx, d)
            /\ 2 * (nx - center.x * d) > d => center.x = PyRound(nx, d) - 1
            /\ 2 * (ny - center.y * d) < d => center.y = PyRound(ny, d)
            /\ 2 * (ny - center.y * d) > d => center.y = PyRound(ny, d) - 1

\* A valid bbox whose scaled center has a fraction above one half in x: the
\* pair returned is one pixel left of the rounded one.
FractionAboveHalfWitness ==
    /\ center.status = "ok" /\ ValidBbox(bbox)
    /\ bbox[1] < bbox[3] /\ bbox[2] < bbox[4]
    /\ center.x < PyRound((bbox[1] + bbox[3]) * screen[1], 2 * Unit)
    /\ screen[1] # screen[2]

\* C17: for a valid bbox the pair returned is the center ((x1+x2)/2,
\* (y1+y2)/2) scaled by (W, H), each component with its fraction dropped.
ReturnsTruncatedCenter ==
    (center # NoCenter /\ ValidBbox(bbox)) =>
        LET sx == (bbox[1] + bbox[3]) * screen[1]
            sy == (bbox[2] + bbox[4]) * screen[2]
        IN  /\ center.status = "ok"
            /\ center.x >= 0 /\ center.y >= 0
            /\ sx = center.x * (2 * Unit) + (sx % (2 * Unit))
            /\ sy = center.y * (2 * Unit) + (sy % (2 * Unit))

\* A valid bbox whose scaled center is not a whole number of pixels in y.
TruncatedFractionWitness ==
    /\ center.status = "ok" /\ ValidBbox(bbox)
    /\ ((bbox[2] + bbox[4]) * screen[2]) % (2 * Unit) # 0
    /\ center.y > 0

\* C18: the temporary directory and the WAV file in it are gone after every
\* way out of main, the normal one and a failure at any stage; until then
\* the directory exists, and the WAV file from the end of the capture on.
TempDirRemovedOnExit ==
    /\ pc \in {"Done", "Error"} => (TempDir \notin tmpfiles /\ WavPath \notin tmpfiles)
    /\ pc \notin {"Idle", "Done", "Error"} => TempDir \in tmpfiles
    /\ pc \in {"Connecting", "Transcribing", "Generating", "Extracting",
               "Validating", "Executing"} => WavPath \in tmpfiles
    /\ WavPath \in tmpfiles => TempDir \in tmpfiles

\* The run was refused by the scan, after the WAV file had been written,
\* and nothing is left on disk.
RefusedAndCleanedWitness ==
    /\ pc = "Error" /\ failedAt = "Validating" /\ ~verdict.safe
    /\ tmpfiles = {}

\* Where the first fenced block of the response ends: the position just
\* after its closing fence.
FirstBlockEnd(text) ==
    LET i == CHOOSE a \in BlockStarts(text) : \A b \in BlockStarts(text) : a <= b
        j == CHOOSE b \in i..Len(text) : Block(text, i, b)
    IN  j + Len(FenceClose)

\* The response holds a second fenced block tagged python after the first.
HasLaterBlock(text) ==
    HasBlock(text) /\ \E i \in BlockStarts(text) : i >= FirstBlockEnd(text)

\* What follows the first fenced block in the response.
AfterFirstBlock(text) == SubSeq(text, FirstBlockEnd(text), Len(text))

\* C19: when the response holds more than one fenced block tagged python,
\* the script is the body of the first one alone: that body is what the
\* scan is given and decides on, and what exec is handed after the helper
\* text; no later block is scanned or run.
OnlyFirstBlockUsed ==
    (HasLaterBlock(raw) /\ Entered("Extracting") /\ failedAt # "Extracting") =>
        LET first == strip(FirstBlockBody(raw))
        IN  /\ code = first
            /\ verdict # NoVerdict =>
                  /\ scanned = first
                  /\ verdict.safe <=>
                        \A k \in 1..Len(BLOCKED_PATTERNS) : ~Occurs(BLOCKED_PATTERNS[k], first)
            /\ executed => full_code = HELPERS \o "\n\n" \o first
            /\ Len(deviceLog) <= Len(Lines(first))

\* The first block was accepted and run to the end although a later block
\* of the same response holds a blocked pattern.
LaterBlockIgnoredWitness ==
    /\ pc = "Done" /\ executed /\ deviceLog # <<>>
    /\ HasLaterBlock(raw)
    /\ Occurs("open(", AfterFirstBlock(raw))

====
